---- MODULE Spec2Model ----
(***************************************************************************)
(* Disk-Cleanup-Automation (src/src/main.rs): a single-threaded watchdog   *)
(* that probes the free space of the volume hosting a base directory and   *)
(* deletes the oldest item of every item-group (base/category/item_group)  *)
(* until the free space is above a threshold.                              *)
(*                                                                         *)
(* Conventions of the model                                                *)
(*  - Option<T>: None is <<>>, Some(x) is <<x>>.                           *)
(*  - io::Result<T>: a record [ok |-> BOOLEAN, val |-> T].                 *)
(*  - A path below base_dir is the sequence of its components' names.      *)
(*  - A name (or a character of a mount point) is a string; the names in   *)
(*    NonUtf8 stand for byte strings that are not valid UTF-8.             *)
(*  - A percentage is the exact quotient num/den kept as a record; den = 0 *)
(*    gives the f64 values NaN (0/0) and +Inf (n/0).  The capacities used  *)
(*    are small, so the f64 quotient is compared as the exact one is.      *)
(***************************************************************************)
EXTENDS Integers, Sequences, FiniteSets, TLC

\* ---------------------------------------------------------------- bounds
MaxTime == 2
MaxItems == 2
MaxPasses == 3
MaxDisks == 2

\* ------------------------------------------------------- program constants
ExitThreshold == 25
StartThreshold == 20
AbsentVolumePercent == 100
StaleSeconds == 604800

None == <<>>
Some(x) == <<x>>
IsSome(o) == Len(o) = 1
Ok(v) == [ok |-> TRUE, val |-> v]
Err == [ok |-> FALSE, val |-> None]

\* --------------------------------------------------- to_string_lossy / to_str
NonUtf8 == {"n_FF"}

\* OsStr::to_string_lossy on one name: invalid bytes become U+FFFD.
LossyName(n) == IF n = "n_FF" THEN "n_FFFD" ELSE n

\* Path::to_string_lossy, component by component (the separators are ASCII).
to_string_lossy(p) == [k \in DOMAIN p |-> LossyName(p[k])]

\* OsStr::to_str: None when the bytes are not valid UTF-8.
to_str(n) == IF n \in NonUtf8 THEN None ELSE Some(n)

\* str::starts_with
starts_with(s, prefix) ==
  /\ Len(prefix) <= Len(s)
  /\ \A k \in 1..Len(prefix) : s[k] = prefix[k]

\* ---------------------------------------------------------- percentages
calculate_percentage(total, available) == [num |-> available * 100, den |-> total]

\* f64 comparisons; every comparison with NaN is false, +Inf is above all.
PctGT(p, k) == IF p.den = 0 THEN p.num > 0 ELSE p.num > k * p.den
PctLT(p, k) == p.den # 0 /\ p.num < k * p.den
PctSame(p, q) ==
  IF p.den = 0 \/ q.den = 0
  THEN p.den = 0 /\ q.den = 0 /\ (p.num = 0) = (q.num = 0)
  ELSE p.num * q.den = q.num * p.den

\* ------------------------------------------------------------ check_storage
\* A disk: [name, mount_point, total_space, available_space]; mount_point is
\* the sequence of its characters.
MountMatches(dir, disk) == starts_with(dir, to_string_lossy(disk.mount_point))

\* Iterator::find, line 16: the first disk whose mount point prefixes base_dir
FindByMount(dir, ds) ==
  IF \E k \in DOMAIN ds : MountMatches(dir, ds[k])
  THEN CHOOSE k \in DOMAIN ds :
         MountMatches(dir, ds[k]) /\ \A m \in 1..(k - 1) : ~MountMatches(dir, ds[m])
  ELSE 0

\* lines 13-18: the name of that disk, as a str
DiskNameFor(dir, ds) ==
  LET k == FindByMount(dir, ds)
  IN  IF k = 0 THEN None ELSE to_str(ds[k].name)

\* lines 21-26: the first disk of the enumeration with that name
FindByName(disk_name, ds) ==
  IF \E k \in DOMAIN ds : to_str(ds[k].name) = disk_name
  THEN CHOOSE k \in DOMAIN ds :
         to_str(ds[k].name) = disk_name /\ \A m \in 1..(k - 1) : to_str(ds[m].name) # disk_name
  ELSE 0

check_storage(dir, ds) ==
  LET disk_name == DiskNameFor(dir, ds)
  IN  IF IsSome(disk_name)
      THEN LET k == FindByName(disk_name, ds)
           IN  IF k = 0 THEN None
               ELSE Some(calculate_percentage(ds[k].total_space, ds[k].available_space))
      ELSE None

\* --------------------------------------------------------------- filesystem
\* A directory listing is the sequence of its entries in read_dir order:
\* [name, isDir, created, metaOk, children].  metaOk = FALSE: fs::metadata
\* or Metadata::created fails for the entry.  children is the listing of a
\* directory (<<>> for a file, and for an item, whose content is not looked at).
File(n) == [name |-> n, isDir |-> FALSE, created |-> 0, metaOk |-> TRUE, children |-> <<>>]
Dir(n, t, kids) == [name |-> n, isDir |-> TRUE, created |-> t, metaOk |-> TRUE, children |-> kids]
NoMetaDir(n) == [name |-> n, isDir |-> TRUE, created |-> 0, metaOk |-> FALSE, children |-> <<>>]

IndexOf(listing, n) ==
  IF \E k \in DOMAIN listing : listing[k].name = n
  THEN CHOOSE k \in DOMAIN listing : listing[k].name = n
  ELSE 0

\* The positions of the directories in a listing.
Dirs(listing) == { k \in DOMAIN listing : listing[k].isDir }

\* The entry a path names in tree, as an Option.
RECURSIVE Lookup(_, _)
Lookup(tree, path) ==
  LET k == IndexOf(tree, Head(path))
  IN  IF k = 0 THEN None
      ELSE IF Len(path) = 1 THEN Some(tree[k])
      ELSE IF tree[k].isDir THEN Lookup(tree[k].children, Tail(path))
      ELSE None

\* Path::is_dir
is_dir(tree, path) == path = <<>> \/ (IsSome(Lookup(tree, path)) /\ Lookup(tree, path)[1].isDir)

\* fs::read_dir with every entry read; ioOk = FALSE: the listing fails.
read_dir(tree, path, ioOk) ==
  IF ~ioOk \/ ~is_dir(tree, path) THEN Err
  ELSE IF path = <<>> THEN Ok(tree)
  ELSE Ok(Lookup(tree, path)[1].children)

\* The tree without the entry path names.
RECURSIVE RemovePath(_, _)
RemovePath(tree, path) ==
  LET k == IndexOf(tree, Head(path))
  IN  IF k = 0 THEN tree
      ELSE IF Len(path) = 1
           THEN SubSeq(tree, 1, k - 1) \o SubSeq(tree, k + 1, Len(tree))
      ELSE [tree EXCEPT ![k].children = RemovePath(tree[k].children, Tail(path))]

\* -------------------------------------------------------- get_oldest_folder
\* lines 36-49, from entry k on
RECURSIVE OldestLoop(_, _, _, _, _)
OldestLoop(listing, k, dir_path, oldest_time, oldest_folder) ==
  IF k > Len(listing) THEN Ok(oldest_folder)
  ELSE LET entry == listing[k]
           path == Append(dir_path, entry.name)
       IN  IF ~entry.isDir
           THEN OldestLoop(listing, k + 1, dir_path, oldest_time, oldest_folder)
           ELSE IF ~entry.metaOk THEN Err
           ELSE IF oldest_time = None \/ entry.created < oldest_time[1]
                THEN OldestLoop(listing, k + 1, dir_path,
                                Some(entry.created), Some(to_string_lossy(path)))
                ELSE OldestLoop(listing, k + 1, dir_path, oldest_time, oldest_folder)

get_oldest_folder(tree, dir_path, ioOk) ==
  LET listing == read_dir(tree, dir_path, ioOk)
  IN  IF ~listing.ok THEN Err
      ELSE OldestLoop(listing.val, 1, dir_path, None, None)

\* ------------------------------------------------------------ delete_folder
\* fs::remove_dir_all: fails on a path that is absent or not a directory.
delete_folder(tree, folder_path, ioOk) ==
  IF ioOk /\ folder_path # <<>> /\ is_dir(tree, folder_path)
  THEN Ok(RemovePath(tree, folder_path))
  ELSE Err

\* ------------------------------------------------------------- the log file
\* The file LOGPATH/cleanup.log: [exists, lines, metaOk, modifiedOk, elapsed].
\* metaOk / modifiedOk: fs::metadata / Metadata::modified succeed on it;
\* elapsed: SystemTime::elapsed of its mtime, None for an mtime in the future.
\* A Duration is [secs, nanos].
ZeroDuration == [secs |-> 0, nanos |-> 0]
from_secs(n) == [secs |-> n, nanos |-> 0]
DurationGT(d, e) == d.secs > e.secs \/ (d.secs = e.secs /\ d.nanos > e.nanos)
unwrap_or(o, dflt) == IF IsSome(o) THEN o[1] ELSE dflt

AbsentLog ==
  [exists |-> FALSE, lines |-> <<>>, metaOk |-> TRUE, modifiedOk |-> TRUE, elapsed |-> None]

\* A log line: the text and the value formatted into it.
Line(text, arg) == [text |-> text, arg |-> arg]
IsLine(l, text, arg) == l.text = text /\ l.arg = arg

\* format!("{:.2}", f64): hundredths, rounded to nearest
FormatPct(p) ==
  IF p.den = 0 THEN (IF p.num = 0 THEN <<"NaN">> ELSE <<"inf">>)
  ELSE <<(p.num * 100 + p.den \div 2) \div p.den>>

\* A faulty variant: the write error is swallowed.
log_message_ignores_error(lf, message, ioOk) ==
  Ok(IF ioOk THEN [lf EXCEPT !.exists = TRUE, !.lines = Append(@, message),
                             !.elapsed = Some(ZeroDuration)]
     ELSE lf)

\* lines 58-66; val is the file after the call
log_message(lf, message, ioOk) ==
  IF ioOk
  THEN Ok([lf EXCEPT !.exists = TRUE, !.lines = Append(@, message),
                     !.elapsed = Some(ZeroDuration)])
  ELSE [ok |-> FALSE, val |-> lf]

\* A faulty variant: the boundary age counts as stale.
clean_log_at_least(lf, rmOk) ==
  IF /\ lf.exists /\ lf.metaOk /\ lf.modifiedOk
     /\ ~DurationGT(from_secs(StaleSeconds), unwrap_or(lf.elapsed, ZeroDuration))
  THEN (IF rmOk THEN Ok(AbsentLog) ELSE [ok |-> FALSE, val |-> lf])
  ELSE Ok(lf)

\* lines 68-79; val is the file after the call
clean_log(lf, rmOk) ==
  IF /\ lf.exists /\ lf.metaOk /\ lf.modifiedOk
     /\ DurationGT(unwrap_or(lf.elapsed, ZeroDuration), from_secs(StaleSeconds))
  THEN (IF rmOk THEN Ok(AbsentLog) ELSE [ok |-> FALSE, val |-> lf])
  ELSE Ok(lf)

\* -------------------------------------------------------------------- state
VARIABLES
  pc,                      \* the statement the program is at
  result,                  \* what main returned: "running", "Ok", "Err"
  base_dir,                \* DIRPATH, the sequence of its characters
  fs,                      \* the listing of base_dir (the tree below it)
  disks,                   \* the enumeration the last probe saw
  logFile,                 \* LOGPATH/cleanup.log
  free_space_percentage,   \* main's probe (an Option), line 132
  cd_free_space_percentage,\* clean_disk's probe, line 83
  i,                       \* position of the loop of line 91 in base_dir
  j,                       \* position of the loop of line 96 in the category
  oldest_folder,           \* line 101 (an Option)
  ret,                     \* the value returned by a function called alone
  hist                     \* history, for the properties only

vars == <<pc, result, base_dir, fs, disks, logFile, free_space_percentage,
          cd_free_space_percentage, i, j, oldest_folder, ret, hist>>

NoVisit == [group |-> <<>>, before |-> <<>>, removed |-> {}, done |-> FALSE]

Hist0 ==
  [ probed       |-> FALSE,  \* main made its probe
    passes       |-> 0,      \* probes made by clean_disk
    cdInvoked    |-> FALSE,  \* main called clean_disk
    ioFailed     |-> FALSE,  \* an I/O operation returned an error
    deleted      |-> {},     \* the paths removed so far
    sweepDeleted |-> {},     \* the paths removed in the current sweep
    deleteCalls  |-> {},     \* every argument of delete_folder, with what it named
    passLogs     |-> 0,      \* log lines written since the last probe of clean_disk
    passStart    |-> 0,      \* length of the log at that probe
    visit        |-> NoVisit \* the item_group being visited, or last visited
  ]

\* ------------------------------------------------------------ initial states
Hundred == [num |-> AbsentVolumePercent, den |-> 1]

RootDisk(total, available) ==
  [name |-> "sda1", mount_point |-> <<"/">>, total_space |-> total,
   available_space |-> available]

\* One disk at "/": 15 %, 20 %, 25 %, 30 %, NaN (total 0), or no disk at all.
MainDiskEnums ==
  { <<RootDisk(20, 3)>>, <<RootDisk(20, 4)>>, <<RootDisk(20, 5)>>, <<RootDisk(20, 6)>>,
    <<RootDisk(0, 0)>>, <<>> }

\* An item of kind c: -1 a file, t >= 1 a directory created at t.
Item(n, c) == IF c = -1 THEN File(n) ELSE Dir(n, c, <<>>)
Slot(n, c) == IF c = 0 THEN <<>> ELSE <<Item(n, c)>>
Present(c) == IF c = 0 THEN 0 ELSE 1

\* Listings of an item_group: each of three names absent, a file or a directory.
MainListings ==
  { Slot("n_FF", c1) \o Slot("a", c2) \o Slot("n_FFFD", c3) :
      <<c1, c2, c3>> \in { t \in (-1..MaxTime) \X (-1..MaxTime) \X (-1..MaxTime) :
                            Present(t[1]) + Present(t[2]) + Present(t[3]) <= MaxItems } }

\* Category B: empty, only a file, an empty item_group, or two item_groups
\* whose names differ only in an invalid byte.
CategoryB ==
  { <<>>,
    <<File("k")>>,
    <<Dir("g2", 0, <<>>)>>,
    <<Dir("n_FF", 0, <<Dir("a", 1, <<>>)>>),
      Dir("n_FFFD", 0, <<Dir("a", 1, <<>>), Dir("b", 2, <<>>)>>)>> }

MainTrees ==
  { <<Dir("A", 0, <<Dir("g1", 0, x), File("h")>>), File("f"), Dir("B", 0, b)>> :
      x \in MainListings, b \in CategoryB }

OldLine == Line("Free space is above 25%. Exiting cleanup.", <<>>)

LogOf(e) ==
  [exists |-> TRUE, lines |-> <<OldLine>>, metaOk |-> TRUE, modifiedOk |-> TRUE,
   elapsed |-> Some(e)]

MainLogFiles ==
  { AbsentLog, LogOf(from_secs(StaleSeconds)), LogOf(from_secs(StaleSeconds + 1)) }

InitCommon ==
  /\ result = "running"
  /\ disks = <<>>
  /\ free_space_percentage = None
  /\ cd_free_space_percentage = Hundred
  /\ i = 0
  /\ j = 0
  /\ oldest_folder = None
  /\ ret = None
  /\ hist = Hist0

Init ==
  /\ pc = "clean_log"
  /\ base_dir = <<"/", "d", "b">>
  /\ fs \in MainTrees
  /\ logFile \in MainLogFiles
  /\ InitCommon

\* ------------------------------------------------------------------ helpers
locals == <<i, j, oldest_folder>>
config == <<base_dir, ret>>

\* The `?` of a failed call: main returns the error.
Abort ==
  /\ pc' = "done"
  /\ result' = "Err"

\* What the path given to delete_folder names at the call.
KindOf(tree, path) ==
  IF path = <<>> \/ ~IsSome(Lookup(tree, path)) THEN "absent"
  ELSE IF Lookup(tree, path)[1].isDir THEN "dir" ELSE "file"

\* log_message(&log_path, message)?; then control is at next (with main's
\* result res).
LogThen(message, next, res) ==
  \E ioOk \in BOOLEAN :
    LET r == log_message(logFile, message, ioOk)
    IN  /\ logFile' = r.val
        /\ IF r.ok
           THEN /\ pc' = next
                /\ result' = res
                /\ hist' = [hist EXCEPT !.passLogs = @ + 1]
           ELSE /\ Abort
                /\ hist' = [hist EXCEPT !.ioFailed = TRUE]

\* ----------------------------------------------------------------- main
\* line 130
MainCleanLog ==
  /\ pc = "clean_log"
  /\ \E rmOk \in BOOLEAN :
       LET r == clean_log(logFile, rmOk)
       IN  /\ logFile' = r.val
           /\ ret' = Some([arg |-> logFile, res |-> r.ok])
           /\ IF r.ok
              THEN /\ pc' = "main_probe"
                   /\ UNCHANGED <<result, hist>>
              ELSE /\ Abort
                   /\ hist' = [hist EXCEPT !.ioFailed = TRUE]
  /\ UNCHANGED <<base_dir, fs, disks, free_space_percentage, cd_free_space_percentage, locals>>

\* line 132, the enumeration drawn from enums
MainProbeFrom(enums) ==
  /\ pc = "main_probe"
  /\ \E ds \in enums :
       /\ disks' = ds
       /\ free_space_percentage' = check_storage(base_dir, ds)
       /\ pc' = IF IsSome(check_storage(base_dir, ds))
                THEN "main_log_current" ELSE "main_log_notfound"
  /\ hist' = [hist EXCEPT !.probed = TRUE]
  /\ UNCHANGED <<result, fs, logFile, cd_free_space_percentage, locals, config>>

MainProbe == MainProbeFrom(MainDiskEnums)

\* A faulty variant: cleanup starts at 20.0 % too.
MainLogCurrent_AtMost ==
  /\ pc = "main_log_current"
  /\ LogThen(Line("Current free space: ", FormatPct(free_space_percentage[1])),
             IF /\ free_space_percentage[1].den # 0
                /\ free_space_percentage[1].num <= StartThreshold * free_space_percentage[1].den
             THEN "main_log_start" ELSE "main_log_sufficient",
             result)
  /\ UNCHANGED <<fs, disks, free_space_percentage, cd_free_space_percentage, locals, config>>

\* lines 133-138
MainLogCurrent ==
  /\ pc = "main_log_current"
  /\ LogThen(Line("Current free space: ", FormatPct(free_space_percentage[1])),
             IF PctLT(free_space_percentage[1], StartThreshold)
             THEN "main_log_start" ELSE "main_log_sufficient",
             result)
  /\ UNCHANGED <<fs, disks, free_space_percentage, cd_free_space_percentage, locals, config>>

\* lines 139-140: the line written, clean_disk is entered
MainLogStart ==
  /\ pc = "main_log_start"
  /\ \E ioOk \in BOOLEAN :
       LET r == log_message(logFile, Line("Free space below threshold. Starting cleanup...", <<>>), ioOk)
       IN  /\ logFile' = r.val
           /\ IF r.ok
              THEN /\ pc' = "cd_probe"
                   /\ result' = result
                   /\ hist' = [hist EXCEPT !.passLogs = @ + 1, !.cdInvoked = TRUE]
              ELSE /\ Abort
                   /\ hist' = [hist EXCEPT !.ioFailed = TRUE]
  /\ UNCHANGED <<fs, disks, free_space_percentage, cd_free_space_percentage, locals, config>>

\* line 142, then line 148
MainLogSufficient ==
  /\ pc = "main_log_sufficient"
  /\ LogThen(Line("Sufficient free space. No cleanup needed.", <<>>), "done", "Ok")
  /\ UNCHANGED <<fs, disks, free_space_percentage, cd_free_space_percentage, locals, config>>

\* line 145, then line 148
MainLogNotFound ==
  /\ pc = "main_log_notfound"
  /\ LogThen(Line("Disk not found for the base directory.", <<>>), "done", "Ok")
  /\ UNCHANGED <<fs, disks, free_space_percentage, cd_free_space_percentage, locals, config>>

\* ------------------------------------------------------------- clean_disk
\* A faulty variant: the loop is left at 25.0 % too.
CdProbeFrom_AtLeast(enums) ==
  /\ pc = "cd_probe"
  /\ hist.passes < MaxPasses
  /\ \E ds \in enums :
       LET p == unwrap_or(check_storage(base_dir, ds), Hundred)
       IN  /\ disks' = ds
           /\ cd_free_space_percentage' = p
           /\ pc' = IF (IF p.den = 0 THEN p.num > 0 ELSE p.num >= ExitThreshold * p.den)
                    THEN "cd_log_exit" ELSE "cd_log_below"
  /\ hist' = [hist EXCEPT !.passes = @ + 1, !.passLogs = 0, !.sweepDeleted = {},
                          !.passStart = Len(logFile.lines)]
  /\ UNCHANGED <<result, fs, logFile, free_space_percentage, locals, config>>

\* lines 83-84: the probe that starts a pass of the loop
CdProbeFrom(enums) ==
  /\ pc = "cd_probe"
  /\ hist.passes < MaxPasses
  /\ \E ds \in enums :
       LET p == unwrap_or(check_storage(base_dir, ds), Hundred)
       IN  /\ disks' = ds
           /\ cd_free_space_percentage' = p
           /\ pc' = IF PctGT(p, ExitThreshold) THEN "cd_log_exit" ELSE "cd_log_below"
  /\ hist' = [hist EXCEPT !.passes = @ + 1, !.passLogs = 0, !.sweepDeleted = {},
                          !.passStart = Len(logFile.lines)]
  /\ UNCHANGED <<result, fs, logFile, free_space_percentage, locals, config>>

CdProbe == CdProbeFrom(MainDiskEnums)

\* lines 85-86, then lines 121 and 148
CdLogExit ==
  /\ pc = "cd_log_exit"
  /\ LogThen(Line("Free space is above 25%. Exiting cleanup.", <<>>), "done", "Ok")
  /\ UNCHANGED <<fs, disks, free_space_percentage, cd_free_space_percentage, locals, config>>

\* line 89
CdLogBelow ==
  /\ pc = "cd_log_below"
  /\ LogThen(Line("Free space is below 25%. Cleaning up...", <<>>), "cd_read_base", result)
  /\ UNCHANGED <<fs, disks, free_space_percentage, cd_free_space_percentage, locals, config>>

\* line 91: fs::read_dir(base_dir)?
CdReadBase ==
  /\ pc = "cd_read_base"
  /\ \E ioOk \in BOOLEAN :
       IF read_dir(fs, <<>>, ioOk).ok
       THEN /\ pc' = "cd_next_folder"
            /\ i' = 1
            /\ UNCHANGED <<result, hist>>
       ELSE /\ Abort
            /\ i' = i
            /\ hist' = [hist EXCEPT !.ioFailed = TRUE]
  /\ UNCHANGED <<fs, disks, logFile, free_space_percentage, cd_free_space_percentage,
                 j, oldest_folder, config>>

\* A faulty variant: a category without subfolders gets a "No subfolders found" line.
CdNextFolder_LogsEmptyCategory ==
  /\ pc = "cd_next_folder"
  /\ IF i > Len(fs)
     THEN /\ pc' = "cd_probe"
          /\ UNCHANGED <<result, i, j, hist, logFile>>
     ELSE IF ~fs[i].isDir
     THEN /\ i' = i + 1
          /\ UNCHANGED <<pc, result, j, hist, logFile>>
     ELSE IF Dirs(fs[i].children) = {}
     THEN /\ logFile' = log_message(logFile,
                          Line("No subfolders found in: ", <<fs[i].name>>), TRUE).val
          /\ i' = i + 1
          /\ UNCHANGED <<pc, result, j, hist>>
     ELSE /\ pc' = "cd_next_subfolder"
          /\ j' = 1
          /\ UNCHANGED <<result, i, hist, logFile>>
  /\ UNCHANGED <<fs, disks, free_space_percentage, cd_free_space_percentage,
                 oldest_folder, config>>

\* A faulty variant: the loop ends after a sweep that deleted nothing.
CdNextFolder_StopsWhenStagnant ==
  /\ pc = "cd_next_folder"
  /\ IF i > Len(fs)
     THEN /\ pc' = IF hist.sweepDeleted = {} THEN "done" ELSE "cd_probe"
          /\ result' = IF hist.sweepDeleted = {} THEN "Ok" ELSE result
          /\ UNCHANGED <<i, j, hist>>
     ELSE IF ~fs[i].isDir
     THEN /\ i' = i + 1
          /\ UNCHANGED <<pc, result, j, hist>>
     ELSE /\ pc' = "cd_next_subfolder"
          /\ j' = 1
          /\ UNCHANGED <<result, i, hist>>
  /\ UNCHANGED <<fs, disks, logFile, free_space_percentage, cd_free_space_percentage,
                 oldest_folder, config>>

\* lines 91-96: the next entry of base_dir; a directory is opened for listing.
\* entryOk: `folder?`; listOk: fs::read_dir(&folder_path)?
CdNextFolder ==
  /\ pc = "cd_next_folder"
  /\ IF i > Len(fs)
     THEN /\ pc' = "cd_probe"
          /\ UNCHANGED <<result, i, j, hist>>
     ELSE \E entryOk \in BOOLEAN, listOk \in BOOLEAN :
            LET folder_path == <<fs[i].name>>
            IN  IF ~entryOk
                THEN /\ Abort
                     /\ hist' = [hist EXCEPT !.ioFailed = TRUE]
                     /\ UNCHANGED <<i, j>>
                ELSE IF ~is_dir(fs, folder_path)
                THEN /\ i' = i + 1
                     /\ UNCHANGED <<pc, result, j, hist>>
                ELSE IF read_dir(fs, folder_path, listOk).ok
                THEN /\ pc' = "cd_next_subfolder"
                     /\ j' = 1
                     /\ UNCHANGED <<result, i, hist>>
                ELSE /\ Abort
                     /\ hist' = [hist EXCEPT !.ioFailed = TRUE]
                     /\ UNCHANGED <<i, j>>
  /\ UNCHANGED <<fs, disks, logFile, free_space_percentage, cd_free_space_percentage,
                 oldest_folder, config>>

\* lines 96-102: the next entry of the category; for a directory,
\* get_oldest_folder(&subfolder_path.to_string_lossy())?
CdNextSubfolder ==
  /\ pc = "cd_next_subfolder"
  /\ IF j > Len(fs[i].children)
     THEN /\ pc' = "cd_next_folder"
          /\ i' = i + 1
          /\ UNCHANGED <<result, j, oldest_folder, hist>>
     ELSE \E entryOk \in BOOLEAN, listOk \in BOOLEAN :
            LET subfolder_path == <<fs[i].name, fs[i].children[j].name>>
                r == get_oldest_folder(fs, to_string_lossy(subfolder_path), listOk)
            IN  IF ~entryOk
                THEN /\ Abort
                     /\ hist' = [hist EXCEPT !.ioFailed = TRUE]
                     /\ UNCHANGED <<i, j, oldest_folder>>
                ELSE IF ~is_dir(fs, subfolder_path)
                THEN /\ j' = j + 1
                     /\ UNCHANGED <<pc, result, i, oldest_folder, hist>>
                ELSE IF r.ok
                THEN /\ oldest_folder' = r.val
                     /\ pc' = IF IsSome(r.val) THEN "cd_log_deleting" ELSE "cd_log_nosub"
                     /\ hist' = [hist EXCEPT !.visit =
                                   [group |-> subfolder_path,
                                    before |-> fs[i].children[j].children,
                                    removed |-> {}, done |-> FALSE]]
                     /\ UNCHANGED <<result, i, j>>
                ELSE /\ Abort
                     /\ hist' = [hist EXCEPT !.ioFailed = TRUE]
                     /\ UNCHANGED <<i, j, oldest_folder>>
  /\ UNCHANGED <<fs, disks, logFile, free_space_percentage, cd_free_space_percentage, config>>

\* line 104
CdLogDeleting ==
  /\ pc = "cd_log_deleting"
  /\ LogThen(Line("Deleting folder: ", oldest_folder[1]), "cd_delete", result)
  /\ UNCHANGED <<fs, disks, free_space_percentage, cd_free_space_percentage, locals, config>>

\* line 105
CdDelete ==
  /\ pc = "cd_delete"
  /\ \E ioOk \in BOOLEAN :
       LET target == oldest_folder[1]
           r == delete_folder(fs, target, ioOk)
           call == [target |-> target, kind |-> KindOf(fs, target)]
       IN  IF r.ok
           THEN /\ fs' = r.val
                /\ pc' = "cd_next_subfolder"
                /\ j' = j + 1
                /\ result' = result
                /\ hist' = [hist EXCEPT !.deleteCalls = @ \cup {call},
                                        !.deleted = @ \cup {target},
                                        !.sweepDeleted = @ \cup {target},
                                        !.visit.removed = @ \cup {target},
                                        !.visit.done = TRUE]
           ELSE /\ Abort
                /\ UNCHANGED <<fs, j>>
                /\ hist' = [hist EXCEPT !.deleteCalls = @ \cup {call}, !.ioFailed = TRUE]
  /\ UNCHANGED <<disks, logFile, free_space_percentage, cd_free_space_percentage,
                 i, oldest_folder, config>>

\* lines 107-113
CdLogNoSub ==
  /\ pc = "cd_log_nosub"
  /\ \E ioOk \in BOOLEAN :
       LET subfolder_path == <<fs[i].name, fs[i].children[j].name>>
           r == log_message(logFile,
                            Line("No subfolders found in: ", to_string_lossy(subfolder_path)),
                            ioOk)
       IN  /\ logFile' = r.val
           /\ IF r.ok
              THEN /\ pc' = "cd_next_subfolder"
                   /\ j' = j + 1
                   /\ result' = result
                   /\ hist' = [hist EXCEPT !.passLogs = @ + 1, !.visit.done = TRUE]
              ELSE /\ Abort
                   /\ j' = j
                   /\ hist' = [hist EXCEPT !.ioFailed = TRUE]
  /\ UNCHANGED <<fs, disks, free_space_percentage, cd_free_space_percentage,
                 i, oldest_folder, config>>

Next ==
  \/ MainCleanLog
  \/ MainProbe
  \/ MainLogCurrent
  \/ MainLogStart
  \/ MainLogSufficient
  \/ MainLogNotFound
  \/ CdProbe
  \/ CdLogExit
  \/ CdLogBelow
  \/ CdReadBase
  \/ CdNextFolder
  \/ CdNextSubfolder
  \/ CdLogDeleting
  \/ CdDelete
  \/ CdLogNoSub

Spec == Init /\ [][Next]_vars

\* ------------------------------------------------- check_storage called alone
AllMounts == { <<"/">>, <<"/", "d">>, <<"/", "n_FF">> }
AllSpaces == { <<0, 0>>, <<4, 1>>, <<4, 4>> }
AllDisks ==
  { [name |-> n, mount_point |-> m, total_space |-> sp[1], available_space |-> sp[2]] :
      n \in {"sda1", "tmpfs"}, m \in AllMounts, sp \in AllSpaces }
AllDiskEnums == UNION { [1..n -> AllDisks] : n \in 0..MaxDisks }
BaseDirs == { <<"/", "d", "b">>, <<"/", "x">>, <<"/", "n_FFFD">>, <<"x">> }

InitStorage ==
  /\ pc = "main_probe"
  /\ base_dir \in BaseDirs
  /\ fs = <<>>
  /\ logFile = AbsentLog
  /\ InitCommon

StorageProbe == MainProbeFrom(AllDiskEnums)

SpecStorage == InitStorage /\ [][StorageProbe]_vars

\* --------------------------------------------- get_oldest_folder called alone
AllNames == {"a", "b", "n_FF", "n_FFFD"}
AllEntries ==
  { File(n) : n \in AllNames } \cup { NoMetaDir(n) : n \in AllNames }
    \cup { Dir(n, t, <<>>) : n \in AllNames, t \in 1..MaxTime }
AllListings ==
  { l \in UNION { [1..n -> AllEntries] : n \in 0..MaxItems + 1 } :
      \A k \in DOMAIN l, m \in DOMAIN l : l[k].name = l[m].name => k = m }

GroupPath == <<"A", "g">>

InitOldest ==
  /\ pc = "get_oldest_folder"
  /\ base_dir = <<"/", "d", "b">>
  /\ fs \in { <<Dir("A", 0, <<Dir("g", 0, l)>>)>> : l \in AllListings }
  /\ logFile = AbsentLog
  /\ InitCommon

\* get_oldest_folder("<base_dir>/A/g")
GetOldestFolderCall ==
  /\ pc = "get_oldest_folder"
  /\ \E ioOk \in BOOLEAN :
       ret' = Some([arg |-> ioOk, res |-> get_oldest_folder(fs, GroupPath, ioOk)])
  /\ pc' = "done"
  /\ UNCHANGED <<result, base_dir, fs, disks, logFile, free_space_percentage,
                 cd_free_space_percentage, locals, hist>>

SpecOldest == InitOldest /\ [][GetOldestFolderCall]_vars

\* ----------------------------------------------------- clean_log called alone
AllDurations ==
  { [secs |-> s, nanos |-> n] :
      s \in {0, StaleSeconds - 1, StaleSeconds, StaleSeconds + 1}, n \in {0, 1} }
AllLogFiles ==
  { [exists |-> e, lines |-> IF e THEN <<OldLine>> ELSE <<>>, metaOk |-> m,
     modifiedOk |-> mo, elapsed |-> el] :
      e \in BOOLEAN, m \in BOOLEAN, mo \in BOOLEAN,
      el \in {None} \cup { Some(d) : d \in AllDurations } }

InitCleanLog ==
  /\ pc = "clean_log"
  /\ base_dir = <<"/", "d", "b">>
  /\ fs = <<>>
  /\ logFile \in AllLogFiles
  /\ InitCommon

SpecCleanLog == InitCleanLog /\ [][MainCleanLog]_vars

\* ------------------------- clean_disk while the volume stays at or below 25 %
\* The runs in which no I/O operation fails and no probe of clean_disk is
\* above the threshold; the program is one thread that always takes its next
\* step.
NextStagnant ==
  /\ Next
  /\ ~hist'.ioFailed
  /\ pc' # "cd_log_exit"

StagnantListings ==
  { Slot("n_FF", c1) \o Slot("a", c2) : c1 \in {0, 1}, c2 \in -1..MaxTime }

InitStagnant ==
  /\ Init
  /\ logFile = AbsentLog
  /\ fs[1].children[1].children \in StagnantListings

SpecStagnant == InitStagnant /\ [][NextStagnant]_vars /\ WF_vars(NextStagnant)

\* ======================================================================
\* Properties
\* ======================================================================
Lines == logFile.lines
LastLine == Lines[Len(Lines)]

\* The directory of a listing with the least creation time, the first of
\* them in listing order.
Earliest(listing) ==
  CHOOSE k \in Dirs(listing) :
    \A m \in Dirs(listing) :
      \/ listing[k].created < listing[m].created
      \/ (listing[k].created = listing[m].created /\ k <= m)

SweepPcs ==
  { "cd_log_below", "cd_read_base", "cd_next_folder", "cd_next_subfolder",
    "cd_log_deleting", "cd_delete", "cd_log_nosub" }

ProbedBelowStart == IsSome(free_space_percentage) /\ PctLT(free_space_percentage[1], 20)

\* ---------------------------------------------------------------------- C1
\* The last log line of a run that made no cleanup.
NoCleanupLine ==
  IF IsSome(free_space_percentage)
  THEN "Sufficient free space. No cleanup needed."
  ELSE "Disk not found for the base directory."

\* C1 as stated: a run that made its probe calls clean_disk if and only if
\* the probe found a volume below 20.0 %; every other such run deletes
\* nothing, ends with Ok, and its last log line is the one of its case.
C1_Original ==
  /\ hist.cdInvoked => ProbedBelowStart
  /\ (pc = "done" /\ ProbedBelowStart) => hist.cdInvoked
  /\ (pc = "done" /\ hist.probed /\ ~hist.cdInvoked) =>
       /\ hist.deleted = {}
       /\ result = "Ok"
       /\ Len(Lines) > 0
       /\ LastLine.text = NoCleanupLine

\* C1 amended: main calls clean_disk only when its probe found a volume
\* below 20.0 %, and always then unless one of the two log writes before the
\* call fails.  A run that does not call it deletes nothing and makes no
\* probe of clean_disk; unless clean_log or a log write failed (the run then
\* ends with that error) it ends with Ok and its last log line is
\* "Sufficient free space. No cleanup needed." (a volume was found) or
\* "Disk not found for the base directory."
C1_CleanupGate ==
  /\ hist.cdInvoked => ProbedBelowStart
  /\ ( /\ ProbedBelowStart
       /\ ~hist.ioFailed
       /\ pc \notin {"main_log_current", "main_log_start"} ) => hist.cdInvoked
  /\ ~hist.cdInvoked => (hist.deleted = {} /\ hist.deleteCalls = {} /\ hist.passes = 0)
  /\ (pc = "done" /\ ~hist.cdInvoked) =>
       IF hist.ioFailed
       THEN result = "Err"
       ELSE /\ result = "Ok"
            /\ Len(Lines) > 0
            /\ LastLine.text = NoCleanupLine

\* A run that ended without cleanup on a volume in the band from 20 % to 25 %.
C1_Witness ==
  /\ pc = "done"
  /\ result = "Ok"
  /\ ~hist.cdInvoked
  /\ IsSome(free_space_percentage)
  /\ ~PctLT(free_space_percentage[1], 20)
  /\ ~PctGT(free_space_percentage[1], 25)
  /\ free_space_percentage[1].den # 0

\* ---------------------------------------------------------------------- C2
HighProbe == PctGT(cd_free_space_percentage, 25)
CdReturnedOk == pc = "done" /\ result = "Ok" /\ hist.cdInvoked

\* C2: clean_disk returns Ok only from a pass whose probe was above 25.0 %
\* (no volume counting as 100 %); after a probe that was not, control is in
\* the sweep, never on the way out.  The pass that returns deletes nothing
\* and writes the one line "Free space is above 25%. Exiting cleanup."; when
\* the first probe is above 25.0 % there is no second probe and nothing is
\* deleted at all.
C2_ExitOnlyAbove ==
  /\ (pc = "cd_log_exit" \/ CdReturnedOk) => (HighProbe /\ hist.sweepDeleted = {})
  /\ CdReturnedOk =>
       /\ hist.passLogs = 1
       /\ Len(Lines) = hist.passStart + 1
       /\ LastLine.text = "Free space is above 25%. Exiting cleanup."
  /\ (hist.passes > 0 /\ ~HighProbe) =>
       (pc \in SweepPcs \cup {"cd_probe"} \/ (pc = "done" /\ result = "Err"))
  /\ (hist.passes > 0 /\ HighProbe) => pc \in {"cd_log_exit", "done"}
  /\ (hist.passes > 0 /\ disks = <<>>) => HighProbe
  /\ (hist.passes = 1 /\ HighProbe) => hist.deleted = {}

\* clean_disk returned after at least one sweep that deleted something.
C2_Witness ==
  /\ CdReturnedOk
  /\ hist.passes > 1
  /\ hist.deleted # {}

\* ---------------------------------------------------------------------- C3
\* C3: a visit of an item_group that holds a directory removes exactly one
\* path, the directory of that item_group with the earliest creation time,
\* and no item_group loses two directories in one sweep.
C3_OneOldestPerGroup ==
  /\ (hist.visit.done /\ Dirs(hist.visit.before) # {}) =>
       hist.visit.removed =
         { Append(hist.visit.group, hist.visit.before[Earliest(hist.visit.before)].name) }
  /\ \A p \in hist.sweepDeleted, q \in hist.sweepDeleted :
       SubSeq(p, 1, 2) = SubSeq(q, 1, 2) => p = q

\* ---------------------------------------------------------------------- C4
\* C4: every path given to delete_folder is three levels below base_dir and
\* names no file; every path removed is such a directory.
C4_DepthThreeDirs ==
  /\ \A c \in hist.deleteCalls : Len(c.target) = 3 /\ c.kind # "file"
  /\ \A p \in hist.deleted : Len(p) = 3

\* ---------------------------------------------------------------------- C5
\* The sweep has just passed entry i - 1 of base_dir, a category without
\* subfolders.
PassedEmptyCategory ==
  /\ pc = "cd_next_folder"
  /\ i > 1
  /\ fs[i - 1].isDir
  /\ Dirs(fs[i - 1].children) = {}

LoggedNoSubFor(path) ==
  \E k \in (hist.passStart + 1)..Len(Lines) :
    IsLine(Lines[k], "No subfolders found in: ", path)

Mounted ==
  { k \in DOMAIN disks :
      LET m == to_string_lossy(disks[k].mount_point)
      IN  Len(m) <= Len(base_dir) /\ SubSeq(base_dir, 1, Len(m)) = m }

FirstMounted == CHOOSE k \in Mounted : \A m \in Mounted : k <= m

\* C6: check_storage returns available/total*100 of the first disk, in
\* enumeration order, whose mount point is a prefix of base_dir, and nothing
\* when there is no such disk.
C6_FirstMountedVolume ==
  pc # "main_probe" =>
    IF Mounted = {}
    THEN free_space_percentage = None
    ELSE /\ IsSome(free_space_percentage)
         /\ PctSame(free_space_percentage[1],
                    [num |-> disks[FirstMounted].available_space * 100,
                     den |-> disks[FirstMounted].total_space])

\* ---------------------------------------------------------------------- C7
Listed == fs[1].children[1].children

\* C7: when the directory can be listed and the creation time of each of its
\* subdirectories read, get_oldest_folder returns the path of the
\* subdirectory with the least creation time, the first of them in listing
\* order, whatever files the listing holds, and Ok(None) when the listing
\* holds no subdirectory.
C7_OldestFirstSeen ==
  (pc = "done" /\ ret[1].arg /\ \A k \in Dirs(Listed) : Listed[k].metaOk) =>
    /\ ret[1].res.ok
    /\ ret[1].res.val = IF Dirs(Listed) = {} THEN None
                        ELSE Some(Append(GroupPath, Listed[Earliest(Listed)].name))

\* ---------------------------------------------------------------------- C8
\* The file as clean_log found it.
LogBefore == ret[1].arg
\* Its last-modified age can be read and is above 604,800 s.
LogWasStale ==
  /\ LogBefore.exists
  /\ LogBefore.metaOk
  /\ LogBefore.modifiedOk
  /\ IsSome(LogBefore.elapsed)
  /\ \/ LogBefore.elapsed[1].secs > 604800
     \/ (LogBefore.elapsed[1].secs = 604800 /\ LogBefore.elapsed[1].nanos > 0)

\* C8: clean_log removes the log file exactly when the file exists, its
\* metadata and modification time can be read and its age is above
\* 604,800 s, unless the removal itself fails; in every other case the file
\* is left as it was and clean_log returns Ok.  It returns an error only
\* when that removal fails.
C8_StaleLogRemoved ==
  IsSome(ret) =>
    /\ ~LogWasStale => (ret[1].res /\ logFile = LogBefore)
    /\ (LogWasStale /\ ret[1].res) => ~logFile.exists
    /\ ~ret[1].res => (LogWasStale /\ logFile = LogBefore /\ result = "Err")
    /\ ret[1].res => (result = "running" /\ pc = "main_probe")

\* clean_log removed a log file.
C8_Witness ==
  /\ IsSome(ret)
  /\ LogBefore.exists
  /\ ~logFile.exists

\* ---------------------------------------------------------------------- C9
DeletingLogged(p) ==
  \E k \in DOMAIN Lines : IsLine(Lines[k], "Deleting folder: ", p)

\* C9: the step in which an I/O operation fails ends the run with the error,
\* deletes no folder and writes no log line, and no step follows it; a
\* folder is removed only when its "Deleting folder" line is in the log
\* already.
C9_ErrorEndsRun ==
  [][ /\ ~hist.ioFailed
      /\ hist'.ioFailed =>
           /\ pc' = "done"
           /\ result' = "Err"
           /\ hist'.deleted = hist.deleted
           /\ logFile' = logFile
      /\ \A p \in hist'.deleted \ hist.deleted : DeletingLogged(p)
      /\ fs' # fs => hist'.deleted # hist.deleted
    ]_vars

\* An I/O error inside clean_disk, after a folder was deleted.
C9_Witness ==
  /\ hist.ioFailed
  /\ hist.cdInvoked
  /\ hist.deleted # {}
  /\ pc = "done"
  /\ result = "Err"

\* --------------------------------------------------------------------- C10
\* The next operation of the sweep fails whatever the environment does: the
\* path it is given names no directory.
ErrorForced ==
  \/ /\ pc = "cd_next_subfolder"
     /\ j <= Len(fs[i].children)
     /\ fs[i].children[j].isDir
     /\ ~is_dir(fs, to_string_lossy(<<fs[i].name, fs[i].children[j].name>>))
  \/ /\ pc = "cd_delete"
     /\ ~is_dir(fs, oldest_folder[1])

\* C10: while no I/O operation fails and no probe is above 25.0 %,
\* clean_disk never returns: it goes on to its next probe, up to any number
\* of passes, also when its sweeps delete nothing (or it comes to an
\* operation that cannot but fail).
C10_NeverReturns ==
  /\ [](hist.cdInvoked => pc # "done")
  /\ (hist.cdInvoked ~> ((hist.passes = MaxPasses /\ pc = "cd_probe") \/ ErrorForced))

\* Every pass allowed was made, nothing was deleted, and each sweep logged
\* "No subfolders found".
C10_Witness ==
  /\ hist.passes = MaxPasses
  /\ pc = "cd_probe"
  /\ hist.deleted = {}
  /\ Cardinality({ k \in DOMAIN Lines : Lines[k].text = "No subfolders found in: " })
       >= MaxPasses

====
